---- MODULE Spec2Model ----
(***************************************************************************)
(* Model of pokemon.py: the Levenshtein distance of Suggest.lev_distance,  *)
(* the suggestion list of Suggest.suggestions, the lookup of Pokemon.get   *)
(* and the branching of App.showinfo.                                      *)
(*                                                                         *)
(* A Python str is a sequence of one-character strings.                    *)
(***************************************************************************)
EXTENDS Integers, Sequences, FiniteSets, TLC

VARIABLES
    \* Suggest.lev_distance: its arguments, its matrix, its return value
    str1, str2, matrix, distance, lev_pc,
    \* Suggest.suggestions: its arguments and its return value
    database, user_input, suggested, sug_pc,
    \* Pokemon: the parsed dataset
    headers, stats, names,
    \* App: its fields, the argument and depth of the running showinfo call,
    \* the length of the last suggestion list, the branch it led to and the
    \* message last printed
    user, randname, userinput, find, depth, suggestions_len, branch, printed,
    app_pc

lev_vars == <<str1, str2, matrix, distance, lev_pc>>

sug_vars == <<database, user_input, suggested, sug_pc>>

data_vars == <<headers, stats, names>>

app_vars ==
    <<user, randname, userinput, find, depth, suggestions_len, branch, printed,
      app_pc>>

vars == <<lev_vars, sug_vars, data_vars, app_vars>>

(* ------------------------------ bounds --------------------------------- *)

\* Longest string handed to lev_distance.
MaxLen == 3

\* Largest candidate list handed to suggestions, counted as the sum over its
\* words of len(word) + 1, and the longest query.
MaxData == 5

MaxQuery == 2

\* Most rows of a dataset, the longest line typed by the user, and the depth
\* of nested showinfo calls at which the interpreter gives up.
MaxNames == 6

MaxInput == 2

MaxDepth == 3

\* The names a dataset is made of.
NamePool == {<<"A", "b">>, <<"b">>}

\* The characters strings are made of: two letters, one of them in both cases.
Alphabet == {"a", "A", "b"}

RECURSIVE StringsOfLen(_)
StringsOfLen(n) ==
    IF n = 0 THEN {<<>>}
    ELSE {Append(s, c) : s \in StringsOfLen(n - 1), c \in Alphabet}

Strings(max) == UNION {StringsOfLen(n) : n \in 0..max}

RECURSIVE ListsOfLen(_, _)
ListsOfLen(words, n) ==
    IF n = 0 THEN {<<>>}
    ELSE {Append(l, w) : l \in ListsOfLen(words, n - 1), w \in words}

Lists(words, max) == UNION {ListsOfLen(words, n) : n \in 0..max}

\* The lists of words of size at most n.
RECURSIVE Databases(_)
Databases(n) ==
    IF n <= 0 THEN {<<>>}
    ELSE {<<>>} \cup
         UNION {{<<w>> \o rest : rest \in Databases(n - 1 - Len(w))} :
                w \in Strings(n - 1)}

Range(f) == {f[x] : x \in DOMAIN f}

(* --------------------------- str.lower() ------------------------------- *)

LowerChar(c) == IF c = "A" THEN "a" ELSE c

Lower(s) == [i \in 1..Len(s) |-> LowerChar(s[i])]

(* ------------------------ Suggest.lev_distance ------------------------- *)

\* matrix.append([index for index in range(len(str1) + 1)])
FirstRow(s1) == [c \in 1..(Len(s1) + 1) |-> c - 1]

\* matrix.append([row + 1]) followed by len(str1) appended zeros.
FilledRowOffByOne(row, s1) == [c \in 1..(Len(s1) + 1) |-> IF c = 1 THEN row ELSE 0]

FilledRow(row, s1) == [c \in 1..(Len(s1) + 1) |-> IF c = 1 THEN row + 1 ELSE 0]

InitMatrix(s1, s2) ==
    <<FirstRow(s1)>> \o [r \in 1..Len(s2) |-> FilledRow(r - 1, s1)]

Min2(x, y) == IF x <= y THEN x ELSE y

MinOfTwo(top, left, bottom) == Min2(top, left)

\* min([top, left, bottom])
MinOfThree(top, left, bottom) == Min2(top, Min2(left, bottom))

\* The body of the inner loop for (index2, index1), both 0-based as in the
\* code; m is 1-based, so m[index2 + 1][index1 + 1] is matrix[index2][index1].
CellValueAlwaysCost(m, s1, s2, index2, index1) ==
    LET top    == m[index2 + 1][index1 + 1]
        left   == m[index2 + 1][index1 + 2]
        bottom == m[index2 + 2][index1 + 1]
    IN  MinOfThree(top, left, bottom) + 1

CellValue(m, s1, s2, index2, index1) ==
    IF s2[index2 + 1] = s1[index1 + 1]
    THEN m[index2 + 1][index1 + 1]
    ELSE LET top    == m[index2 + 1][index1 + 1]
             left   == m[index2 + 1][index1 + 2]
             bottom == m[index2 + 2][index1 + 1]
         IN  MinOfThree(top, left, bottom) + 1

\* The two nested loops, row by row: step k handles index2 = k div len(str1)
\* and index1 = k mod len(str1).
RECURSIVE Calculate(_, _, _, _)
Calculate(m, s1, s2, k) ==
    IF k >= Len(s1) * Len(s2) THEN m
    ELSE LET index2 == k \div Len(s1)
             index1 == k % Len(s1)
             cell   == CellValue(m, s1, s2, index2, index1)
         IN  Calculate([m EXCEPT ![index2 + 2][index1 + 2] = cell], s1, s2, k + 1)

\* The matrix as it stands at the return statement.
LevMatrixCaseSensitive(a, b) == Calculate(InitMatrix(a, b), a, b, 0)

LevMatrix(a, b) ==
    LET s1 == Lower(a)
        s2 == Lower(b)
    IN  Calculate(InitMatrix(s1, s2), s1, s2, 0)

\* matrix[-1][-1]
BottomRight(m) == m[Len(m)][Len(m[Len(m)])]

lev_distance(a, b) == BottomRight(LevMatrix(a, b))

(* ------------------------- Suggest.suggestions ------------------------- *)

\* Python's `sub in text` on two str.
IsSubstring(sub, text) ==
    \E i \in 0..(Len(text) - Len(sub)) : SubSeq(text, i + 1, i + Len(sub)) = sub

\* direct_suggestions after the first loop: the user input is compared as
\* given, the word in lower case.
DirectSuggestions(db, input) ==
    SelectSeq(db, LAMBDA word : IsSubstring(input, Lower(word)))

\* The keys of hit_dict in the order a dict iterates them: the order of
\* first insertion.
RECURSIVE HitKeysReversed(_)
HitKeysReversed(db) ==
    IF db = <<>> THEN <<>>
    ELSE LET front == HitKeysReversed(SubSeq(db, 1, Len(db) - 1))
             word  == db[Len(db)]
         IN  IF word \in Range(front) THEN front ELSE <<word>> \o front

RECURSIVE HitKeys(_)
HitKeys(db) ==
    IF db = <<>> THEN <<>>
    ELSE LET front == HitKeys(SubSeq(db, 1, Len(db) - 1))
             word  == db[Len(db)]
         IN  IF word \in Range(front) THEN front ELSE Append(front, word)

\* hit_dict[word] = self.lev_distance(user_input, word)
HitDict(db, input) == [word \in Range(db) |-> lev_distance(input, word)]

\* min(hit_dict.values())
MinHit(hit) == CHOOSE d \in Range(hit) : \A e \in Range(hit) : d <= e

\* The second loop.
BestMatchStrict(db, input) ==
    LET hit  == HitDict(db, input)
        least == MinHit(hit)
    IN  SelectSeq(HitKeys(db), LAMBDA word : hit[word] < least)

BestMatch(db, input) ==
    LET hit  == HitDict(db, input)
        least == MinHit(hit)
    IN  SelectSeq(HitKeys(db), LAMBDA word : hit[word] = least)

suggestions(db, input) ==
    LET direct_suggestions == DirectSuggestions(db, input)
    IN  IF direct_suggestions # <<>> THEN direct_suggestions
        ELSE BestMatch(db, input)

(* ------------------- specification of lev_distance --------------------- *)

LevInit ==
    /\ str1 \in Strings(MaxLen)
    /\ str2 \in Strings(MaxLen)
    /\ matrix = <<>>
    /\ distance = -1
    /\ lev_pc = "call"
    /\ database = <<>>
    /\ user_input = <<>>
    /\ suggested = <<>>
    /\ sug_pc = "idle"
    /\ headers = <<>>
    /\ stats = <<>>
    /\ names = <<>>
    /\ user = <<>>
    /\ randname = <<>>
    /\ userinput = <<>>
    /\ find = <<>>
    /\ depth = 0
    /\ suggestions_len = -1
    /\ branch = "none"
    /\ printed = "nothing"
    /\ app_pc = "idle"

LevDistance ==
    /\ lev_pc = "call"
    /\ matrix' = LevMatrix(str1, str2)
    /\ distance' = lev_distance(str1, str2)
    /\ lev_pc' = "done"
    /\ UNCHANGED <<str1, str2>>
    /\ UNCHANGED <<sug_vars, data_vars, app_vars>>

LevNext == LevDistance

SpecLev == LevInit /\ [][LevNext]_vars

(* -------------------- specification of suggestions --------------------- *)

SugInit ==
    /\ database \in Databases(MaxData)
    /\ user_input \in Strings(MaxQuery)
    /\ suggested = <<>>
    /\ sug_pc = "call"
    /\ str1 = <<>>
    /\ str2 = <<>>
    /\ matrix = <<>>
    /\ distance = -1
    /\ lev_pc = "idle"
    /\ headers = <<>>
    /\ stats = <<>>
    /\ names = <<>>
    /\ user = <<>>
    /\ randname = <<>>
    /\ userinput = <<>>
    /\ find = <<>>
    /\ depth = 0
    /\ suggestions_len = -1
    /\ branch = "none"
    /\ printed = "nothing"
    /\ app_pc = "idle"

Suggestions ==
    /\ sug_pc = "call"
    /\ suggested' = suggestions(database, user_input)
    /\ sug_pc' = "done"
    /\ UNCHANGED <<database, user_input>>
    /\ UNCHANGED <<lev_vars, data_vars, app_vars>>

SugNext == Suggestions

SpecSug == SugInit /\ [][SugNext]_vars

(* ------------------------------ Pokemon -------------------------------- *)

\* The loop of fetch over the rows after the header: stats maps the row
\* number to the row, and names collects row[1]. A row is its first two
\* columns, the number and the name.
FetchStats(rows) == [rownum \in 1..Len(rows) |-> <<rownum, rows[rownum]>>]

FetchNames(rows) == [rownum \in 1..Len(rows) |-> rows[rownum]]

\* dict(zip(self.headers, each)), as the sequence of its items.
Zip(keys, vals) ==
    [k \in 1..(IF Len(keys) <= Len(vals) THEN Len(keys) ELSE Len(vals))
        |-> <<keys[k], vals[k]>>]

\* Pokemon.get: the info dict of the first row whose name is find, up to
\* case, or None.
None == [none |-> TRUE, items |-> <<>>]

GetCaseSensitive(f) ==
    LET matches == {i \in 1..Len(stats) : stats[i][2] = Lower(f)}
    IN  IF matches = {} THEN None
        ELSE LET first == CHOOSE i \in matches : \A j \in matches : i <= j
             IN  [none |-> FALSE, items |-> Zip(headers, stats[first])]

Get(f) ==
    LET matches == {i \in 1..Len(stats) : Lower(stats[i][2]) = Lower(f)}
    IN  IF matches = {} THEN None
        ELSE LET first == CHOOSE i \in matches : \A j \in matches : i <= j
             IN  [none |-> FALSE, items |-> Zip(headers, stats[first])]

\* `if info:` is false for None and for an empty dict.
Truthy(info) == ~info.none /\ info.items # <<>>

\* random.randrange(800)
RandRange == 800

\* Pokemon.randname, for the row number drawn.
RandName(randnum) ==
    IF randnum < Len(stats) THEN stats[randnum + 1][2] ELSE <<>>

\* The row numbers randrange can draw. Every draw of len(stats) or more
\* leaves the name empty, so that len(stats) stands for all of them.
RandNums == 0..Min2(RandRange - 1, Len(stats))

(* -------------------------------- App ---------------------------------- *)

\* The branch of showinfo taken for a suggestion list of length n.
Branch(n) ==
    IF n = 1 THEN "instead"
    ELSE IF n <= 5 THEN "did you mean"
    ELSE "be more specific"

\* The state after Pokemon.__init__: a dataset with or without a header line.
AppInit ==
    /\ headers \in {<<>>, <<"#", "Name">>}
    /\ \E rows \in Lists(NamePool, MaxNames) :
          /\ stats = FetchStats(rows)
          /\ names = FetchNames(rows)
    /\ user = <<>>
    /\ randname = <<>>
    /\ userinput = <<>>
    /\ find = <<>>
    /\ depth = 0
    /\ suggestions_len = -1
    /\ branch = "none"
    /\ printed = "nothing"
    /\ app_pc = "init"
    /\ str1 = <<>>
    /\ str2 = <<>>
    /\ matrix = <<>>
    /\ distance = -1
    /\ lev_pc = "idle"
    /\ database = <<>>
    /\ user_input = <<>>
    /\ suggested = <<>>
    /\ sug_pc = "idle"

\* App.__init__ up to its call of showinfo.
AppStart ==
    /\ app_pc = "init"
    /\ \E randnum \in RandNums, line \in Strings(MaxInput) :
          /\ randname' = RandName(randnum)
          /\ user' = line
          /\ userinput' = IF line # <<>> THEN line ELSE RandName(randnum)
          /\ find' = IF line # <<>> THEN line ELSE RandName(randnum)
    /\ depth' = 0
    /\ app_pc' = "showinfo"
    /\ UNCHANGED <<suggestions_len, branch, printed>>
    /\ UNCHANGED <<lev_vars, sug_vars, data_vars>>

\* One call of App.showinfo(find), up to its return or its nested call.
ShowInfo ==
    /\ app_pc = "showinfo"
    /\ IF Truthy(Get(find))
       THEN /\ printed' = "info"
            /\ app_pc' = "done"
            /\ UNCHANGED <<find, depth, suggestions_len, branch>>
       ELSE \E found \in {suggestions(names, userinput)} :
                /\ suggestions_len' = Len(found)
                /\ branch' = Branch(Len(found))
                /\ printed' = Branch(Len(found))
                /\ IF Len(found) = 1
                   THEN IF depth < MaxDepth
                        THEN /\ find' = found[1]
                             /\ depth' = depth + 1
                             /\ app_pc' = "showinfo"
                        ELSE /\ app_pc' = "RecursionError"
                             /\ UNCHANGED <<find, depth>>
                   ELSE /\ app_pc' = "done"
                        /\ UNCHANGED <<find, depth>>
    /\ UNCHANGED <<user, randname, userinput>>
    /\ UNCHANGED <<lev_vars, sug_vars, data_vars>>

AppNext == AppStart \/ ShowInfo

SpecApp == AppInit /\ [][AppNext]_vars

(* ----------------------- claims on lev_distance ------------------------ *)

\* Two characters are the same letter, whatever their case.
SameLetter(c, d) == c = d \/ {c, d} = {"a", "A"}

\* The edit distance by its definition: the cheapest of deleting the head of
\* a, inserting the head of b, and matching or substituting the two heads.
RECURSIVE EditDistance(_, _)
EditDistance(a, b) ==
    IF a = <<>> THEN Len(b)
    ELSE IF b = <<>> THEN Len(a)
    ELSE LET del == EditDistance(Tail(a), b) + 1
             ins == EditDistance(a, Tail(b)) + 1
             sub == EditDistance(Tail(a), Tail(b))
                    + (IF SameLetter(Head(a), Head(b)) THEN 0 ELSE 1)
         IN  Min2(del, Min2(ins, sub))

\* C1: lev_distance(a, b) is the minimum number of single-character
\* insertions, deletions and substitutions that turn lowercase(a) into
\* lowercase(b).
C1_LevIsEditDistance ==
    lev_pc = "done" => distance = EditDistance(str1, str2)

\* C1 witness: a pair that differs in case and in length and needs an
\* insertion and a substitution has been measured.
C1_Witness ==
    /\ lev_pc = "done"
    /\ str1 = <<"A", "b">>
    /\ str2 = <<"b", "a", "a">>
    /\ distance = 2

\* C5: lev_distance(a, b) = lev_distance(b, a).
C5_Symmetric ==
    lev_pc = "done" => distance = lev_distance(str2, str1)

\* C5 witness: two different strings of different lengths at a positive
\* distance, so that the matrix of (b, a) is the transposed shape.
C5_Witness ==
    /\ lev_pc = "done"
    /\ Len(str1) < Len(str2)
    /\ Len(str1) > 0
    /\ distance > Len(str2) - Len(str1)

\* C6: with an empty argument, lev_distance returns the length of the other
\* argument; the matrix is the single row [0..len(a)] when b is empty, rows
\* of one element [0], [1], ... when a is empty, and the result is its
\* bottom-right cell.
C6_EmptyString ==
    lev_pc = "done" =>
        /\ str2 = <<>> =>
              /\ distance = Len(str1)
              /\ matrix = << [c \in 1..(Len(str1) + 1) |-> c - 1] >>
        /\ str1 = <<>> =>
              /\ distance = Len(str2)
              /\ matrix = [r \in 1..(Len(str2) + 1) |-> <<r - 1>>]
        /\ distance = matrix[Len(matrix)][Len(matrix[Len(matrix)])]

\* C6 witness: an empty first argument against a string of full length.
C6_Witness ==
    /\ lev_pc = "done"
    /\ str1 = <<>>
    /\ Len(str2) = MaxLen
    /\ distance = MaxLen

(* ------------------------ claims on suggestions ------------------------ *)

\* Two strings are equal up to the case of their letters.
SameWord(a, b) ==
    /\ Len(a) = Len(b)
    /\ \A i \in 1..Len(a) : SameLetter(a[i], b[i])

\* sub occurs in text as a contiguous substring, up to case.
ContainsIgnoringCase(text, sub) ==
    \E i \in 0..(Len(text) - Len(sub)) :
        SameWord(SubSeq(text, i + 1, i + Len(sub)), sub)

\* sub can be obtained from full by deleting entries.
RECURSIVE IsSubsequence(_, _)
IsSubsequence(sub, full) ==
    IF sub = <<>> THEN TRUE
    ELSE IF full = <<>> THEN FALSE
    ELSE IF Head(sub) = Head(full) THEN IsSubsequence(Tail(sub), Tail(full))
    ELSE IsSubsequence(sub, Tail(full))

\* C2: when some candidate contains the query as a substring, up to case,
\* the result is exactly the candidates that do, in candidate order.
C2_SubstringPass ==
    (/\ sug_pc = "done"
     /\ \E i \in 1..Len(database) : ContainsIgnoringCase(database[i], user_input))
    => suggested
         = SelectSeq(database, LAMBDA word : ContainsIgnoringCase(word, user_input))

\* C3: when no candidate contains the query as a substring, the result is
\* every entry of the candidate list at minimum edit distance from the query,
\* in candidate order, an entry that occurs k times occurring k times.
C3_DistancePass ==
    (/\ sug_pc = "done"
     /\ \A i \in 1..Len(database) : ~ContainsIgnoringCase(database[i], user_input))
    => suggested
         = SelectSeq(database, LAMBDA word :
               \A i \in 1..Len(database) :
                   EditDistance(user_input, word)
                       <= EditDistance(user_input, database[i]))

\* C4: the result is a subsequence of the candidate list, in its order, and
\* is empty when the candidate list is.
C4_Subsequence ==
    sug_pc = "done" =>
        /\ IsSubsequence(suggested, database)
        /\ database = <<>> => suggested = <<>>

\* C4 witness: no candidate contains the query, and the distance pass has
\* kept the first and the third of three different candidates.
C4_Witness ==
    /\ sug_pc = "done"
    /\ DirectSuggestions(database, user_input) = <<>>
    /\ Len(database) = 3
    /\ suggested = <<database[1], database[3]>>
    /\ database[2] \notin Range(suggested)

\* C9: the result is not empty when the candidate list is not.
C9_NonEmpty ==
    (sug_pc = "done" /\ database # <<>>) => suggested # <<>>

\* C9 witness: no candidate contains the query, and the distance pass has
\* returned a candidate.
C9_Witness ==
    /\ sug_pc = "done"
    /\ database # <<>>
    /\ \A i \in 1..Len(database) : ~ContainsIgnoringCase(database[i], user_input)
    /\ Len(suggested) = 1

\* C10: a candidate equal to the query up to case is in the result.
C10_ExactMatchKept ==
    sug_pc = "done" =>
        \A i \in 1..Len(database) :
            SameWord(database[i], user_input) => database[i] \in Range(suggested)

\* C10 witness: the query has an upper-case letter, so that the substring
\* pass finds nothing, and two candidates equal to it up to case are
\* returned by the distance pass.
C10_Witness ==
    /\ sug_pc = "done"
    /\ user_input # Lower(user_input)
    /\ Len(database) = 2
    /\ database[1] # database[2]
    /\ SameWord(database[1], user_input)
    /\ SameWord(database[2], user_input)
    /\ suggested = database

(* ------------------------- claims on showinfo -------------------------- *)

\* C7: after a failed lookup, showinfo calls itself with the suggestion
\* exactly when there is one, lists the suggestions exactly when there are
\* two to five, and asks to be more specific exactly when there are more
\* than five.
C7_TriModal ==
    suggestions_len # -1 =>
        /\ branch = "instead" <=> suggestions_len = 1
        /\ branch = "did you mean" <=> (2 <= suggestions_len /\ suggestions_len <= 5)
        /\ branch = "be more specific" <=> suggestions_len > 5

\* C8: with a header line in the dataset, a nested showinfo call is made on
\* a name that get finds, so that showinfo is nested at most once and the
\* nesting never runs into the interpreter's limit.
C8_RequeryTerminates ==
    headers # <<>> =>
        /\ depth <= 1
        /\ app_pc # "RecursionError"
        /\ depth = 1 => (find \in Range(names) /\ Truthy(Get(find)))

\* C8 witness: a lookup failed, the single suggestion differs from the
\* input in case and in length, and the nested call has printed its record.
C8_Witness ==
    /\ headers # <<>>
    /\ depth = 1
    /\ app_pc = "done"
    /\ printed = "info"
    /\ suggestions_len = 1
    /\ find # Lower(find)
    /\ Len(userinput) < Len(find)

====
